---------------------------- MODULE Spec2Model ----------------------------
(***************************************************************************)
(* Model of oauth.py: a bottle application that runs the Dropbox OAuth2    *)
(* authorization-code flow and keeps the resulting DropboxClient in a      *)
(* module-level global that /metadata/<segment> and /test read.            *)
(*                                                                         *)
(* Two specifications are given.  Spec is the program as oauth.py runs it: *)
(* run(host, port, debug=True) starts bottle's default single-threaded     *)
(* server, so each request is handled to completion before the next one    *)
(* and a handler is one action.  SpecThreaded is the same handlers served  *)
(* by several threads, one statement that touches shared state per step;   *)
(* it is used only for the statement about concurrent callbacks.           *)
(*                                                                         *)
(* The Dropbox SDK and the provider are outside the repository.  They are  *)
(* modelled by their contract: start() stores a fresh CSRF token in the    *)
(* session and returns the authorization URL; finish(query) checks the     *)
(* state against the session, consumes the session entry, and exchanges    *)
(* the code for an access token or raises; a client answers account_info() *)
(* and metadata(path) as a function of its access token.                   *)
(***************************************************************************)
EXTENDS Naturals, Sequences, FiniteSets, TLC

VARIABLES
    client,       \* the module global `client`
    session,      \* the module global `session`, a dict as a set of <<key, value>>
    bottle,       \* the installed bottle release line, fixed at start
    request,      \* Spec: the request handled last
    response,     \* Spec: the response sent for it
    sdk_calls,    \* Spec: the calls that request made on the client, in order
    exchanged,    \* Spec: access tokens obtained so far by /redirect_uri exchanges
    last_token,   \* Spec: the access token of the latest of them, "" when none
    thread,       \* SpecThreaded: per server thread, its position and locals
    last_store    \* SpecThreaded: the thread that executed line 56 last, 0 when none

vars == <<client, session, bottle, request, response, sdk_calls, exchanged,
          last_token, thread, last_store>>

---------------------------------------------------------------------------
(* Bounds of the model *)

\* authorization codes the provider accepts are 1..MaxCode; 0 is one it rejects
MaxCode == 2
\* values os.urandom can give the CSRF token
MaxCsrf == 2
\* longest request path tail after /metadata/, in URL characters
MaxTailLen == 3
\* server threads of SpecThreaded
NumThreads == 2

---------------------------------------------------------------------------
(* Module-level values, lines 8-13 *)

app_key == "9ero453euch91e0"
app_secret == "621050byozk9lgd"
dropbox_redirect_uri == "http://localhost:8080/redirect_uri"
csrf_token_session_key == "dropbox-auth-csrf-token"

\* Python's None
NoneValue == [type |-> "NoneType"]

Codes == 0..MaxCode
ValidCodes == 1..MaxCode
CsrfTokens == {ToString(i) : i \in 1..MaxCsrf}
\* the state parameter of a callback query; "" is a query without one
QueryStates == {""} \cup CsrfTokens
Queries == [state : QueryStates, code : Codes]
NoQuery == [state |-> "", code |-> 0]
Protocols == {"HTTP/1.0", "HTTP/1.1"}

---------------------------------------------------------------------------
(* The SDK boundary *)

\* the access token the provider issues for an authorization code
AccessTokenFor(code) == "access-token-" \o ToString(code)
AccessTokens == {AccessTokenFor(c) : c \in ValidCodes}

\* dropbox.client.DropboxClient(access_token)
DropboxClient(access_token) ==
    [type |-> "DropboxClient", access_token |-> access_token]

\* client.account_info() of a constructed client
account_info(c) == [account_of |-> c.access_token]

\* client.metadata(path) of a constructed client
metadata(c, path) == [account_of |-> c.access_token, path |-> path]

\* get_auth_flow(): a flow over the static configuration and the shared session
get_auth_flow ==
    [consumer_key |-> app_key, consumer_secret |-> app_secret,
     redirect_uri |-> dropbox_redirect_uri,
     csrf_token_session_key |-> csrf_token_session_key]

\* session with key set to value, as dict assignment does
SessionSet(sess, key, value) ==
    {kv \in sess : kv[1] # key} \cup {<<key, value>>}

\* session without key, as del does
SessionDel(sess, key) == {kv \in sess : kv[1] # key}

\* flow.start(): the session after it and the authorization URL it returns
FlowStart(flow, sess, csrf) ==
    [session |-> SessionSet(sess, flow.csrf_token_session_key, csrf),
     url |-> "https://www.dropbox.com/1/oauth2/authorize?response_type=code&client_id="
             \o flow.consumer_key \o "&redirect_uri=" \o flow.redirect_uri
             \o "&state=" \o csrf]

\* flow.finish(query): raises when the state is missing, the session holds no
\* CSRF token or another one; consumes the session entry; then raises when the
\* provider rejects the code, else returns the access token.
FlowFinish(flow, sess, query) ==
    LET key == flow.csrf_token_session_key IN
    IF query.state = "" \/ <<key, query.state>> \notin sess
    THEN [ok |-> FALSE, session |-> sess, access_token |-> ""]
    ELSE IF query.code \notin ValidCodes
    THEN [ok |-> FALSE, session |-> SessionDel(sess, key), access_token |-> ""]
    ELSE [ok |-> TRUE, session |-> SessionDel(sess, key),
          access_token |-> AccessTokenFor(query.code)]

---------------------------------------------------------------------------
(* What a handler hands back to bottle *)

\* a value returned by the handler
Returned(value) == [kind |-> "return", value |-> value]

\* an exception other than HTTPResponse leaving the handler
Raised(exc) == [kind |-> "exception", exc |-> exc]

\* bottle.redirect(url): raises an HTTPResponse with the Location header;
\* the status is 303 for an HTTP/1.1 request and 302 otherwise
redirect(url, protocol) ==
    [kind |-> "HTTPResponse",
     status |-> IF protocol = "HTTP/1.1" THEN 303 ELSE 302,
     headers |-> {<<"Location", url>>}]


---------------------------------------------------------------------------
(* The client global as the handlers use it *)

\* the assignment without `global client`: it binds a local, the global keeps its value
StoreClientLocal(old, new) == old

\* an assignment that sets the global only while it is None
StoreClientOnce(old, new) == IF old = NoneValue THEN new ELSE old

\* lines 55-56: `global client` and the assignment; the value the global holds after
StoreClient(old, new) == new

\* client.<op>(...) on the global: AttributeError when it is None
ClientCall(c, op, path) ==
    IF c = NoneValue THEN Raised("AttributeError")
    ELSE IF op = "metadata" THEN Returned(metadata(c, path))
    ELSE Returned(account_info(c))

\* the SDK calls that call makes
ClientCalls(c, op, path) ==
    IF c = NoneValue THEN <<>> ELSE <<[op |-> op, client |-> c, path |-> path]>>

\* what a handler does: the globals after it, what it hands to bottle, the
\* client calls it made and the access token its exchange obtained ("" if none)
Effect(cl, sess, out, calls, token) ==
    [client |-> cl, session |-> sess, out |-> out, calls |-> calls, token |-> token]

---------------------------------------------------------------------------
(* The route handlers *)

\* the handler starting the flow and returning without the redirect
dropbox_auth_start_returns(cl, sess, csrf, protocol) ==
    LET started == FlowStart(get_auth_flow, sess, csrf)
    IN  Effect(cl, started.session, Returned(NoneValue), <<>>, "")

\* lines 38-41
dropbox_auth_start(cl, sess, csrf, protocol) ==
    LET started == FlowStart(get_auth_flow, sess, csrf)
        new_url == started.url
    IN  Effect(cl, started.session, redirect(new_url, protocol), <<>>, "")

\* the callback clearing the global when its exchange fails
redirect_uri_resets(cl, sess, query) ==
    LET finished == FlowFinish(get_auth_flow, sess, query) IN
    IF ~finished.ok
    THEN Effect(NoneValue, finished.session, Raised("finish"), <<>>, "")
    ELSE LET stored == DropboxClient(finished.access_token)
         IN  Effect(stored, finished.session,
                    ClientCall(stored, "account_info", <<>>),
                    ClientCalls(stored, "account_info", <<>>),
                    finished.access_token)

\* lines 47-57
redirect_uri(cl, sess, query) ==
    LET finished == FlowFinish(get_auth_flow, sess, query) IN
    IF ~finished.ok
    THEN Effect(cl, finished.session, Raised("finish"), <<>>, "")
    ELSE LET stored == StoreClient(cl, DropboxClient(finished.access_token))
         IN  Effect(stored, finished.session,
                    ClientCall(stored, "account_info", <<>>),
                    ClientCalls(stored, "account_info", <<>>),
                    finished.access_token)

\* the alternate completion endpoint keeping the client of its exchange
finish_auth_stores(cl, sess, query) ==
    LET finished == FlowFinish(get_auth_flow, sess, query) IN
    IF ~finished.ok
    THEN Effect(cl, finished.session, Raised("finish"), <<>>, "")
    ELSE Effect(DropboxClient(finished.access_token), finished.session,
                Returned(NoneValue), <<>>, "")

\* the alternate completion endpoint dropping the client when its exchange fails
finish_auth_clears(cl, sess, query) ==
    LET finished == FlowFinish(get_auth_flow, sess, query) IN
    IF ~finished.ok
    THEN Effect(NoneValue, finished.session, Raised("finish"), <<>>, "")
    ELSE Effect(cl, finished.session, Returned(NoneValue), <<>>, "")

\* lines 60-62: the exchange, its result dropped; the handler returns None
finish_auth(cl, sess, query) ==
    LET finished == FlowFinish(get_auth_flow, sess, query) IN
    IF ~finished.ok
    THEN Effect(cl, finished.session, Raised("finish"), <<>>, "")
    ELSE Effect(cl, finished.session, Returned(NoneValue), <<>>, "")

\* line 66
MetadataPath(folder_path) == <<"/">> \o folder_path

\* lines 64-67
get_metadata(cl, sess, folder_path) ==
    LET path == MetadataPath(folder_path)
    IN  Effect(cl, sess, ClientCall(cl, "metadata", path),
               ClientCalls(cl, "metadata", path), "")

\* lines 70-72
initial_corordinates(cl, sess) ==
    Effect(cl, sess, ClientCall(cl, "account_info", <<>>),
           ClientCalls(cl, "account_info", <<>>), "")

---------------------------------------------------------------------------
(* Routing of /metadata/<tail> *)

\* a request path tail is a sequence of URL characters; "%2F" is the escape of "/"
UrlChars == {"f", "/", "%2F"}
Tails == UNION {[1..n -> UrlChars] : n \in 0..MaxTailLen}

\* the server's percent-decoding of the request path into PATH_INFO
unquote(raw) == [i \in 1..Len(raw) |-> IF raw[i] = "%2F" THEN "/" ELSE raw[i]]

\* line 64: the wildcard :folder_path matches one non-empty segment without "/"
RouteMatches(tail) ==
    /\ Len(tail) > 0
    /\ \A i \in 1..Len(tail) : tail[i] # "/"

\* the request path tails that reach get_metadata
Segments == {raw \in Tails : RouteMatches(unquote(raw))}

---------------------------------------------------------------------------
(* bottle: the after_request hook and the response sent *)

CorsHeaders ==
    {<<"Access-Control-Allow-Origin", "*">>,
     <<"Access-Control-Allow-Methods", "PUT, GET, POST, DELETE, OPTIONS">>,
     <<"Access-Control-Allow-Headers",
       "Origin, Accept, Content-Type, X-Requested-With, X-CSRF-Token">>}

\* lines 26-36: the three assignments on response.headers
enable_cors(headers) ==
    {h \in headers : \A c \in CorsHeaders : h[1] # c[1]} \cup CorsHeaders

EmptyBody == [type |-> "empty"]
ErrorPage(status) == [type |-> "error page", status |-> status]
Body(value) ==
    IF value = NoneValue THEN EmptyBody ELSE [type |-> "json", value |-> value]

\* the router's answer to a path no route matches
NotFound == [kind |-> "HTTPResponse", status |-> 404, headers |-> {}]

\* The response bottle sends.  The hook runs after every handler and sets the
\* headers on the response object of the request.  A returned value is sent with
\* that object's headers.  An exception becomes a new HTTPError(500) whose own
\* headers replace those of the response object.  A raised HTTPResponse replaces
\* them too in bottle 0.12 (applied after the hook) and receives the hook's
\* headers in bottle 0.13 (applied before the hook).
Respond(version, out) ==
    CASE out.kind = "return" ->
           [status |-> 200, headers |-> enable_cors({}), body |-> Body(out.value)]
      [] out.kind = "HTTPResponse" ->
           [status |-> out.status,
            headers |-> IF version = "0.13" THEN enable_cors(out.headers)
                        ELSE out.headers,
            body |-> IF out.status >= 400 THEN ErrorPage(out.status) ELSE EmptyBody]
      [] out.kind = "exception" ->
           [status |-> 500, headers |-> {}, body |-> ErrorPage(500)]

BottleVersions == {"0.12", "0.13"}

---------------------------------------------------------------------------
(* The program under bottle's single-threaded server: one request at a time *)

Request(route, tail, query, protocol) ==
    [route |-> route, tail |-> tail, query |-> query, protocol |-> protocol]

NoRequest == Request("", <<>>, NoQuery, "HTTP/1.1")
NoResponse == [status |-> 0, headers |-> {}, body |-> EmptyBody]
NoThread ==
    [pc |-> "idle", route |-> "", access_token |-> "", status |-> 0, raced |-> FALSE]

Init ==
    /\ client = NoneValue
    /\ session = {}
    /\ bottle \in BottleVersions
    /\ request = NoRequest
    /\ response = NoResponse
    /\ sdk_calls = <<>>
    /\ exchanged = {}
    /\ last_token = ""
    /\ thread = [t \in 1..NumThreads |-> NoThread]
    /\ last_store = 0

\* one request handled to completion and answered
Serve(req, eff) ==
    /\ client' = eff.client
    /\ session' = eff.session
    /\ request' = req
    /\ response' = Respond(bottle, eff.out)
    /\ sdk_calls' = eff.calls
    /\ exchanged' = IF eff.token = "" THEN exchanged ELSE exchanged \cup {eff.token}
    /\ last_token' = IF eff.token = "" THEN last_token ELSE eff.token
    /\ UNCHANGED <<bottle, thread, last_store>>

DropboxAuthStart ==
    \E csrf \in CsrfTokens, p \in Protocols :
        Serve(Request("/dropbox-auth-start", <<>>, NoQuery, p),
              dropbox_auth_start(client, session, csrf, p))

RedirectUri ==
    \E q \in Queries :
        Serve(Request("/redirect_uri", <<>>, q, "HTTP/1.1"),
              redirect_uri(client, session, q))

FinishAuth ==
    \E q \in Queries :
        Serve(Request("/dropbox-auth-finish", <<>>, q, "HTTP/1.1"),
              finish_auth(client, session, q))

GetMetadata ==
    \E raw \in Segments :
        Serve(Request("/metadata/", raw, NoQuery, "HTTP/1.1"),
              get_metadata(client, session, unquote(raw)))

MetadataNoRoute ==
    \E raw \in Tails \ Segments :
        Serve(Request("/metadata/", raw, NoQuery, "HTTP/1.1"),
              Effect(client, session, NotFound, <<>>, ""))

Test ==
    Serve(Request("/test", <<>>, NoQuery, "HTTP/1.1"),
          initial_corordinates(client, session))

Next ==
    \/ DropboxAuthStart
    \/ RedirectUri
    \/ FinishAuth
    \/ GetMetadata
    \/ MetadataNoRoute
    \/ Test

Spec == Init /\ [][Next]_vars

---------------------------------------------------------------------------
(* Properties of the single-threaded program *)

\* the last request reached get_metadata
MetadataServed ==
    request.route = "/metadata/" /\ RouteMatches(unquote(request.tail))

\* the last request reached a handler that reads the client global
ReadsClient == request.route = "/test" \/ MetadataServed

\* C1: the client global is None unless some earlier /redirect_uri request
\* completed its token exchange.
ClientUnsetUntilExchange == client = NoneValue \/ exchanged # {}

\* C1 witness: a callback carrying a state has failed its exchange and been
\* answered, and the global is still None.
ClientUnsetAfterFailedCallback ==
    /\ request.route = "/redirect_uri"
    /\ request.query.state # ""
    /\ response.status = 500
    /\ exchanged = {}
    /\ client = NoneValue

\* C2: while no /redirect_uri has succeeded, /metadata/<segment> and /test are
\* answered with a distinct unauthenticated error: a 4xx, neither the generic
\* server error of an unhandled exception nor a success.
UnauthenticatedIsDistinctError ==
    (ReadsClient /\ exchanged = {}) =>
        /\ response.status \in 400..499
        /\ response.status # 500
        /\ response.status # 200

\* C3: once a /redirect_uri has succeeded, /test returns the account info of
\* the client that the latest successful /redirect_uri built from its access
\* token, and /metadata reads that client too.
ReadsSeeStoredClient ==
    last_token # "" =>
        /\ request.route = "/test" =>
              /\ response.status = 200
              /\ response.body = Body(account_info(DropboxClient(last_token)))
        /\ MetadataServed =>
              /\ response.status = 200
              /\ response.body =
                    Body(metadata(DropboxClient(last_token),
                                  MetadataPath(unquote(request.tail))))

\* C3 witness: /test answered with the account info of the second of two
\* authorizations.
TestAfterCallback ==
    /\ request.route = "/test"
    /\ Cardinality(exchanged) = 2
    /\ response.status = 200
    /\ response.body = Body(account_info(DropboxClient(last_token)))

\* C5: every response carries the three CORS headers.
EveryResponseHasCors ==
    request.route # "" => CorsHeaders \subseteq response.headers

\* C6: every /dropbox-auth-start request is answered with a redirect whose
\* location is the non-empty authorization URL that start() returned, the one
\* carrying the CSRF token now in the session.
AuthStartRedirects ==
    request.route = "/dropbox-auth-start" =>
        /\ response.status \in {302, 303}
        /\ \E csrf \in CsrfTokens :
              LET url == FlowStart(get_auth_flow, {}, csrf).url IN
              /\ <<csrf_token_session_key, csrf>> \in session
              /\ Len(url) > 0
              /\ {h \in response.headers : h[1] = "Location"} = {<<"Location", url>>}

\* C6 witness: /dropbox-auth-start answered while a client is already stored.
AuthStartWhenAuthenticated ==
    /\ request.route = "/dropbox-auth-start"
    /\ client # NoneValue
    /\ response.status = 303

\* C7: once the client global is set, no request unsets it.
ClientStaysSet == [][client # NoneValue => client' # NoneValue]_vars

\* C7 witness: a failed callback has been answered and the client is still set.
FailedCallbackWhenAuthenticated ==
    /\ request.route = "/redirect_uri"
    /\ response.status = 500
    /\ client # NoneValue

\* C8: with the client set, /metadata/<s> calls metadata exactly once with "/"
\* prepended once to s and returns the result; a tail denoting f/f (the
\* shape of foo/bar) is forwarded as /f/f.
MetadataForwardsSegment ==
    (request.route = "/metadata/" /\ client # NoneValue) =>
        /\ MetadataServed =>
              /\ sdk_calls = <<[op |-> "metadata", client |-> client,
                               path |-> <<"/">> \o unquote(request.tail)]>>
              /\ response.body =
                    Body(metadata(client, <<"/">> \o unquote(request.tail)))
        /\ request.tail = <<"f", "%2F", "f">> =>
              /\ Len(sdk_calls) = 1
              /\ sdk_calls[1].path = <<"/", "f", "/", "f">>

\* C9: after a successful /redirect_uri the client global is exactly the
\* client built from the access token of the most recent one.
ClientIsLatestAuthorization ==
    last_token # "" => client = DropboxClient(last_token)

\* C9 witness: a second authorization with another code has replaced the first.
SecondAuthorizationStored ==
    /\ Cardinality(exchanged) = 2
    /\ request.route = "/redirect_uri"
    /\ response.status = 200
    /\ client = DropboxClient(last_token)

\* C10: only a /redirect_uri answered successfully changes the client global.
OnlyCallbackWrites ==
    [][client' # client =>
          request'.route = "/redirect_uri" /\ response'.status = 200]_vars

\* C10 witness: /dropbox-auth-finish completed its exchange and the global is
\* still None.
FinishAuthLeavesClient ==
    /\ request.route = "/dropbox-auth-finish"
    /\ response.status = 200
    /\ client = NoneValue

---------------------------------------------------------------------------
(* The handlers served by several threads.  A thread takes a request when it  *)
(* is idle, runs the handler one shared-state access at a time, keeps the     *)
(* outcome while the response is written, and becomes idle again.  The        *)
(* handlers other than redirect_uri access shared state once.  redirect_uri   *)
(* has three accesses: finish() on the session (line 54), the store to the   *)
(* client global (line 56) and the read of it for account_info() (line 57);   *)
(* access_token is a local of the thread.                                     *)

Threads == 1..NumThreads

\* threads between line 54 and the return of redirect_uri
InCallback == {t \in Threads : thread[t].pc \in {"store", "return"}}

Answered(t, route, out, token) ==
    [pc |-> "done", route |-> route, access_token |-> token,
     status |-> Respond(bottle, out).status, raced |-> thread[t].raced]

Unthreaded == <<bottle, request, response, sdk_calls, exchanged, last_token>>

\* lines 38-41 on thread t
TAuthStart(t) ==
    /\ thread[t].pc = "idle"
    /\ \E csrf \in CsrfTokens :
          LET eff == dropbox_auth_start(client, session, csrf, "HTTP/1.1") IN
          /\ session' = eff.session
          /\ thread' = [thread EXCEPT
                           ![t] = Answered(t, "/dropbox-auth-start", eff.out, "")]
    /\ UNCHANGED <<client, last_store, Unthreaded>>

\* lines 48-54 on thread t: the exchange
TCallbackFinish(t) ==
    /\ thread[t].pc = "idle"
    /\ \E q \in Queries :
          LET finished == FlowFinish(get_auth_flow, session, q) IN
          /\ session' = finished.session
          /\ thread' = [thread EXCEPT ![t] =
                 IF finished.ok
                 THEN [pc |-> "store", route |-> "/redirect_uri",
                       access_token |-> finished.access_token, status |-> 0,
                       raced |-> FALSE]
                 ELSE Answered(t, "/redirect_uri", Raised("finish"), "")]
    /\ UNCHANGED <<client, last_store, Unthreaded>>

\* lines 55-56 on thread t: the store to the global
TCallbackStore(t) ==
    /\ thread[t].pc = "store"
    /\ client' = StoreClient(client, DropboxClient(thread[t].access_token))
    /\ last_store' = t
    /\ thread' = [u \in Threads |->
                     IF u = t
                     THEN [thread[u] EXCEPT !.pc = "return",
                                            !.raced = @ \/ InCallback # {t}]
                     ELSE IF u \in InCallback
                     THEN [thread[u] EXCEPT !.raced = TRUE]
                     ELSE thread[u]]
    /\ UNCHANGED <<session, Unthreaded>>

\* line 57 on thread t: account_info() of whatever the global holds now
TCallbackReturn(t) ==
    /\ thread[t].pc = "return"
    /\ thread' = [thread EXCEPT ![t] =
                     [Answered(t, "/redirect_uri",
                               ClientCall(client, "account_info", <<>>),
                               thread[t].access_token)
                      EXCEPT !.raced = thread[t].raced]]
    /\ UNCHANGED <<client, session, last_store, Unthreaded>>

\* lines 60-62 on thread t
TFinishAuth(t) ==
    /\ thread[t].pc = "idle"
    /\ \E q \in Queries :
          LET eff == finish_auth(client, session, q) IN
          /\ session' = eff.session
          /\ client' = eff.client
          /\ thread' = [thread EXCEPT
                           ![t] = Answered(t, "/dropbox-auth-finish", eff.out, "")]
    /\ UNCHANGED <<last_store, Unthreaded>>

\* lines 64-67 on thread t
TGetMetadata(t) ==
    /\ thread[t].pc = "idle"
    /\ \E raw \in Segments :
          LET eff == get_metadata(client, session, unquote(raw)) IN
          /\ client' = eff.client
          /\ thread' = [thread EXCEPT
                           ![t] = Answered(t, "/metadata/", eff.out, "")]
    /\ UNCHANGED <<session, last_store, Unthreaded>>

\* lines 70-72 on thread t
TTest(t) ==
    /\ thread[t].pc = "idle"
    /\ LET eff == initial_corordinates(client, session) IN
       /\ client' = eff.client
       /\ thread' = [thread EXCEPT ![t] = Answered(t, "/test", eff.out, "")]
    /\ UNCHANGED <<session, last_store, Unthreaded>>

\* the response is out; thread t waits for its next request
TRelease(t) ==
    /\ thread[t].pc = "done"
    /\ thread' = [thread EXCEPT ![t] = NoThread]
    /\ UNCHANGED <<client, session, last_store, Unthreaded>>

NextThreaded ==
    \E t \in Threads :
        \/ TAuthStart(t)
        \/ TCallbackFinish(t)
        \/ TCallbackStore(t)
        \/ TCallbackReturn(t)
        \/ TFinishAuth(t)
        \/ TGetMetadata(t)
        \/ TTest(t)
        \/ TRelease(t)

SpecThreaded == Init /\ [][NextThreaded]_vars

\* thread t has answered a /redirect_uri whose exchange succeeded
CallbackDone(t) ==
    /\ thread[t].pc = "done"
    /\ thread[t].route = "/redirect_uri"
    /\ thread[t].access_token # ""

\* C4: when two /redirect_uri requests with different valid codes have both
\* finished and no other request has stored since, the client global is the
\* client built from the access token of exactly one of the two: the one that
\* executed the store last.
ConcurrentCallbacksLeaveOne ==
    \A t1, t2 \in Threads :
        ( /\ t1 # t2
          /\ CallbackDone(t1)
          /\ CallbackDone(t2)
          /\ thread[t1].access_token # thread[t2].access_token
          /\ last_store \in {t1, t2} ) =>
            /\ client \in {DropboxClient(thread[t1].access_token),
                           DropboxClient(thread[t2].access_token)}
            /\ client = DropboxClient(thread[last_store].access_token)

\* C4 witness: two callbacks with different codes whose steps interleaved have
\* both finished, and the global holds the client of the second.
InterleavedCallbacksDone ==
    /\ CallbackDone(1)
    /\ CallbackDone(2)
    /\ thread[1].raced
    /\ thread[2].raced
    /\ thread[1].access_token # thread[2].access_token
    /\ client = DropboxClient(thread[2].access_token)

===========================================================================
